---- MODULE Spec2Model ----
(***************************************************************************)
(* Tic-Tac-Toe, player versus computer (src/tictactoe_ai.py).              *)
(*                                                                         *)
(* The board model (new_board, available_moves, check_winner, is_draw),    *)
(* the search engine (minimax with alpha-beta pruning, get_best_move with  *)
(* its centre check and win/block scans) and the turn loop (game_loop) are *)
(* translated from the source.  The search functions mutate the board they *)
(* are given and undo the mutation; the operators below thread the board   *)
(* through every call and return it, so that a missing undo is visible.    *)
(***************************************************************************)
EXTENDS Integers, Sequences, FiniteSets, TLC

(* ----------------------------------------------------------------------- *)
(* Values                                                                  *)
(* ----------------------------------------------------------------------- *)

\* " " in a cell of the board.
Empty == " "

\* The two marks a player can choose.
Marks == {"X", "O"}

\* Python's None as the result of check_winner (Optional[str]).
NoWinner == "None"

\* Python's None as a move (Optional[Position]).
NoMove == -1

\* math.inf; every score lies in -10..10.
Inf == 100

\* Position = int, 0..8.
Positions == 0..8

max(x, y) == IF x >= y THEN x ELSE y

min(x, y) == IF x <= y THEN x ELSE y

(* ----------------------------------------------------------------------- *)
(* Board model                                                             *)
(* ----------------------------------------------------------------------- *)

new_board == [i \in Positions |-> Empty]

\* The cells that hold " ", in ascending index order.
available_moves(bd) ==
    SelectSeq(<<0, 1, 2, 3, 4, 5, 6, 7, 8>>, LAMBDA i : bd[i] = Empty)

\* A lines table whose second diagonal is mistyped.
lines_wrong_diagonal ==
    << <<0, 1, 2>>, <<3, 4, 5>>, <<6, 7, 8>>,
       <<0, 3, 6>>, <<1, 4, 7>>, <<2, 5, 8>>,
       <<0, 4, 8>>, <<2, 4, 7>> >>

\* rows, columns, diagonals, in the order check_winner tries them.
lines ==
    << <<0, 1, 2>>, <<3, 4, 5>>, <<6, 7, 8>>,
       <<0, 3, 6>>, <<1, 4, 7>>, <<2, 5, 8>>,
       <<0, 4, 8>>, <<2, 4, 6>> >>

\* The test check_winner makes of one line l = (a, c, d):
\* b[a] != " " and b[a] == b[c] == b[d].
line_hit(bd, l) ==
    /\ bd[l[1]] # Empty
    /\ bd[l[1]] = bd[l[2]]
    /\ bd[l[2]] = bd[l[3]]

\* The for loop over lines, line by line in the order of the table: the mark
\* of the first line that one mark owns, None when there is none.
check_winner(bd) ==
    IF line_hit(bd, lines[1]) THEN bd[lines[1][1]]
    ELSE IF line_hit(bd, lines[2]) THEN bd[lines[2][1]]
    ELSE IF line_hit(bd, lines[3]) THEN bd[lines[3][1]]
    ELSE IF line_hit(bd, lines[4]) THEN bd[lines[4][1]]
    ELSE IF line_hit(bd, lines[5]) THEN bd[lines[5][1]]
    ELSE IF line_hit(bd, lines[6]) THEN bd[lines[6][1]]
    ELSE IF line_hit(bd, lines[7]) THEN bd[lines[7][1]]
    ELSE IF line_hit(bd, lines[8]) THEN bd[lines[8][1]]
    ELSE NoWinner

\* A draw test that forgets the winner check.
is_draw_full_only(bd) == \A i \in Positions : bd[i] # Empty

is_draw(bd) ==
    check_winner(bd) = NoWinner /\ \A i \in Positions : bd[i] # Empty

(* ----------------------------------------------------------------------- *)
(* Search engine                                                           *)
(* ----------------------------------------------------------------------- *)

\* b[move] = mark, the speculative (or real) placement of a mark.
place(bd, move, mark) == [bd EXCEPT ![move] = mark]

\* A search that forgets to clear the cell it tried.
undo_skipped(bd, move) == bd

\* b[move] = " ", the undo of a speculative mark.
undo(bd, move) == [bd EXCEPT ![move] = Empty]

\* A running best score that starts at 0 on both branches.
init_best_zero(is_max) == Inf - Inf

\* best_score before the loop: -inf when maximizing, +inf when minimizing.
init_best(is_max) == IF is_max THEN -Inf ELSE Inf

\* A maximizing comparison that also replaces the best move on a tie.
better_max_on_tie(score, best_score) == score >= best_score

\* if score > best_score, in the maximizing branch.
better_max(score, best_score) == score > best_score

\* A minimizing branch that copies the maximizing branch's comparison.
better_min_as_max(score, best_score) == score > best_score

\* if score < best_score, in the minimizing branch.
better_min(score, best_score) == score < best_score

\* A cut-off with its operands swapped.
cut_off_swapped(alpha, beta) == alpha <= beta

\* if beta <= alpha: break, in both branches.
cut_off(alpha, beta) == beta <= alpha

RECURSIVE minimax(_, _, _, _, _, _, _)
RECURSIVE max_loop(_, _, _, _, _, _, _, _, _, _)
RECURSIVE min_loop(_, _, _, _, _, _, _, _, _, _)

\* The maximizing branch's for loop, at its k-th move; best_score and
\* best_move are the loop's running values.  The mark is placed, the
\* recursion runs on the marked board, and the cell is cleared on the board
\* the recursion hands back.
max_loop(bd, moves, k, depth, computer, player, alpha, beta, best_score, best_move) ==
    IF k > Len(moves)
    THEN [score |-> best_score, move |-> best_move, board |-> bd]
    ELSE LET move == moves[k]
             r == minimax(place(bd, move, computer), depth + 1, FALSE,
                          computer, player, alpha, beta)
             undone == undo(r.board, move)
             better == better_max(r.score, best_score)
             bs == IF better THEN r.score ELSE best_score
             bm == IF better THEN move ELSE best_move
             a == max(alpha, bs)
         IN  IF cut_off(a, beta)
             THEN [score |-> bs, move |-> bm, board |-> undone]
             ELSE max_loop(undone, moves, k + 1, depth, computer, player,
                           a, beta, bs, bm)

\* The minimizing branch's for loop.
min_loop(bd, moves, k, depth, computer, player, alpha, beta, best_score, best_move) ==
    IF k > Len(moves)
    THEN [score |-> best_score, move |-> best_move, board |-> bd]
    ELSE LET move == moves[k]
             r == minimax(place(bd, move, player), depth + 1, TRUE,
                          computer, player, alpha, beta)
             undone == undo(r.board, move)
             better == better_min(r.score, best_score)
             bs == IF better THEN r.score ELSE best_score
             bm == IF better THEN move ELSE best_move
             bt == min(beta, bs)
         IN  IF cut_off(alpha, bt)
             THEN [score |-> bs, move |-> bm, board |-> undone]
             ELSE min_loop(undone, moves, k + 1, depth, computer, player,
                           alpha, bt, bs, bm)

\* (score, move) and the board as the call leaves it.
minimax(bd, depth, is_max, computer, player, alpha, beta) ==
    LET winner == check_winner(bd)
    IN  IF winner = computer
        THEN [score |-> 10 - depth, move |-> NoMove, board |-> bd]
        ELSE IF winner = player
        THEN [score |-> depth - 10, move |-> NoMove, board |-> bd]
        ELSE IF is_draw(bd)
        THEN [score |-> 0, move |-> NoMove, board |-> bd]
        ELSE IF is_max
        THEN max_loop(bd, available_moves(bd), 1, depth, computer, player,
                      alpha, beta, init_best(is_max), NoMove)
        ELSE min_loop(bd, available_moves(bd), 1, depth, computer, player,
                      alpha, beta, init_best(is_max), NoMove)

\* A scan that looks for the opponent's winning cell before its own.
scan_order_block_first(computer, player) == <<player, computer>>

\* A scan that only looks for its own winning cell.
scan_order_own_only(computer, player) == <<computer>>

\* The tuple (computer, player) that get_best_move's outer for loop runs over.
scan_order(computer, player) == <<computer, player>>

\* The inner for loop of get_best_move for one mark, at its k-th move.
RECURSIVE scan_moves(_, _, _, _)
scan_moves(bd, mark, moves, k) ==
    IF k > Len(moves)
    THEN [found |-> FALSE, move |-> NoMove, board |-> bd]
    ELSE LET move == moves[k]
             placed == place(bd, move, mark)
         IN  IF check_winner(placed) = mark
             THEN [found |-> TRUE, move |-> move, board |-> undo(placed, move)]
             ELSE scan_moves(undo(placed, move), mark, moves, k + 1)

\* The outer for loop of get_best_move, at the n-th mark of the tuple.  The
\* loop variable is named player and so rebinds the parameter: when the loop
\* runs to its end, player is the tuple's last mark.
RECURSIVE scan_marks(_, _, _, _)
scan_marks(bd, marks, n, player) ==
    IF n > Len(marks)
    THEN [found |-> FALSE, move |-> NoMove, board |-> bd, player |-> player]
    ELSE LET s == scan_moves(bd, marks[n], available_moves(bd), 1)
         IN  IF s.found
             THEN [found |-> TRUE, move |-> s.move, board |-> s.board,
                   player |-> marks[n]]
             ELSE scan_marks(s.board, marks, n + 1, marks[n])

\* A centre check that takes the centre whenever it is free.
centre_check_free_centre(bd, computer) ==
    [win |-> bd[4] = Empty, board |-> bd]

\* The centre check: whether the centre is free and wins at once, and the
\* board as the check leaves it.
centre_check(bd, computer) ==
    IF bd[4] = Empty
    THEN LET placed == place(bd, 4, computer)
         IN  [win |-> check_winner(placed) = computer, board |-> undo(placed, 4)]
    ELSE [win |-> FALSE, board |-> bd]

\* The position returned (move), whether the assertion failed instead
\* (raised), whether minimax ran (searched), and the board as the call
\* leaves it.
get_best_move(bd, computer, player) ==
    LET c == centre_check(bd, computer)
    IN  IF c.win
        THEN [move |-> 4, raised |-> FALSE, searched |-> FALSE, board |-> c.board]
        ELSE LET s == scan_marks(c.board, scan_order(computer, player), 1, player)
             IN  IF s.found
                 THEN [move |-> s.move, raised |-> FALSE, searched |-> FALSE,
                       board |-> s.board]
                 ELSE LET r == minimax(s.board, 0, TRUE, computer, s.player,
                                       -Inf, Inf)
                      IN  [move |-> r.move, raised |-> r.move = NoMove,
                           searched |-> TRUE, board |-> r.board]

(* ----------------------------------------------------------------------- *)
(* State                                                                   *)
(* ----------------------------------------------------------------------- *)

VARIABLES
    b,          \* the board: game_loop's b, or the board handed to a call
    player,     \* the human's mark
    computer,   \* the computer's mark
    turn,       \* "P" or "C": who moves next in game_loop
    pc,         \* "loop", "over", "exit", "crashed" in game_loop;
                \* "input", "done" around a single call
    winner,     \* game_loop's winner, the last result of check_winner
    ret,        \* the last call made: its name, the board it was given, its result
    forced,     \* history: at some turn of the computer in this game the
                \* computer had a forced win
    selfplay    \* history: every move of the human in this game so far is
                \* the move get_best_move returns for the human's mark

vars == <<b, player, computer, turn, pc, winner, ret, forced, selfplay>>

\* No call made yet.
NoCall == [op |-> "none"]

\* computer = "O" if player == "X" else "X"
other_mark(mark) == IF mark = "X" THEN "O" ELSE "X"

\* The turn left with the side that has just moved.
other_turn_same(t) == IF t = "P" THEN "P" ELSE "C"

\* turn = "C" if turn == "P" else "P"
other_turn(t) == IF t = "P" THEN "C" ELSE "P"

(* ----------------------------------------------------------------------- *)
(* Lines, terminal boards and forced wins, stated without the code         *)
(* ----------------------------------------------------------------------- *)

\* The 8 lines of the 3x3 grid (index = row*3 + col): 3 rows, 3 columns and
\* the 2 diagonals.
WinLines ==
    {{3 * r + c : c \in 0..2} : r \in 0..2}
        \cup {{3 * r + c : r \in 0..2} : c \in 0..2}
        \cup {{4 * k : k \in 0..2}, {2 * k + 2 : k \in 0..2}}

\* Some line of bd is owned by mark.
OwnsLine(bd, mark) == \E L \in WinLines : \A i \in L : bd[i] = mark

EmptyCells(bd) == {i \in Positions : bd[i] = Empty}

\* With me to move on bd, me can complete a line whatever opp replies.
RECURSIVE ForcedWin(_, _, _)
ForcedWin(bd, me, opp) ==
    /\ ~OwnsLine(bd, opp)
    /\ \E i \in EmptyCells(bd) :
          LET b1 == [bd EXCEPT ![i] = me]
          IN  \/ OwnsLine(b1, me)
              \/ /\ EmptyCells(b1) # {}
                 /\ \A j \in EmptyCells(b1) :
                       LET b2 == [b1 EXCEPT ![j] = opp]
                       IN  ~OwnsLine(b2, opp) /\ ForcedWin(b2, me, opp)

(* ----------------------------------------------------------------------- *)
(* game_loop                                                               *)
(* ----------------------------------------------------------------------- *)

\* The state in which game_loop enters its while loop, for the answers mark
\* and first of the two ask_choice prompts.
GameStart(mark, first) ==
    /\ player' = mark
    /\ computer' = other_mark(mark)
    /\ b' = new_board
    /\ turn' = (IF first = "P" THEN "P" ELSE "C")
    /\ pc' = "loop"
    /\ winner' = NoWinner
    /\ ret' = NoCall
    /\ forced' = FALSE
    /\ selfplay' = TRUE

Init ==
    \E mark \in Marks, first \in {"P", "C"} :
        /\ player = mark
        /\ computer = other_mark(mark)
        /\ b = new_board
        /\ turn = (IF first = "P" THEN "P" ELSE "C")
        /\ pc = "loop"
        /\ winner = NoWinner
        /\ ret = NoCall
        /\ forced = FALSE
        /\ selfplay = TRUE

\* A pass of the loop that goes on to the next turn on a full board.
AfterMove_no_draw_check(nb, w) ==
    /\ b' = nb
    /\ winner' = w
    /\ IF w # NoWinner
       THEN pc' = "over" /\ turn' = turn
       ELSE pc' = "loop" /\ turn' = other_turn(turn)

\* A pass of the loop that goes on to the next turn on a board with a winner.
AfterMove_no_winner_check(nb, w) ==
    /\ b' = nb
    /\ winner' = w
    /\ IF is_draw(nb)
       THEN pc' = "over" /\ turn' = turn
       ELSE pc' = "loop" /\ turn' = other_turn(turn)

\* The rest of one pass of the while loop after the move is on the board nb,
\* w being check_winner(nb): the winner check, the draw check and the change
\* of turn.
AfterMove(nb, w) ==
    /\ b' = nb
    /\ winner' = w
    /\ IF w # NoWinner
       THEN pc' = "over" /\ turn' = turn
       ELSE IF is_draw(nb)
       THEN pc' = "over" /\ turn' = turn
       ELSE pc' = "loop" /\ turn' = other_turn(turn)

\* turn == "P": ask_move returns a position in 0..8 whose cell is empty (it
\* asks again on anything else), and the human's mark goes there.  engine is
\* the position get_best_move would return for the human's mark on this
\* board; it is read by the history variable selfplay only.
PlayerTurn ==
    /\ pc = "loop"
    /\ turn = "P"
    /\ \E engine \in {IF selfplay THEN get_best_move(b, player, computer).move
                                  ELSE NoMove} :
       \E move \in Positions :
          /\ b[move] = Empty
          /\ \E nb \in {place(b, move, player)} : AfterMove(nb, check_winner(nb))
          /\ selfplay' = (selfplay /\ move = engine)
    /\ UNCHANGED <<player, computer, ret, forced>>

\* turn == "C": get_best_move runs on the board (and leaves it as it leaves
\* it), then the computer's mark goes to the position returned.  A failed
\* assertion ends the program.
ComputerTurn ==
    /\ pc = "loop"
    /\ turn = "C"
    /\ \E r \in {get_best_move(b, computer, player)} :
          /\ ret' = [op |-> "get_best_move", before |-> b, move |-> r.move,
                     raised |-> r.raised, searched |-> r.searched]
          /\ IF r.raised
             THEN /\ pc' = "crashed"
                  /\ b' = r.board
                  /\ UNCHANGED <<turn, winner>>
             ELSE \E nb \in {place(r.board, r.move, computer)} :
                     AfterMove(nb, check_winner(nb))
    /\ forced' = (forced \/ ForcedWin(b, computer, player))
    /\ UNCHANGED <<player, computer, selfplay>>

\* "Play again?" answered Y: game_loop calls itself and asks the two
\* questions again.
PlayAgain ==
    /\ pc = "over"
    /\ \E mark \in Marks, first \in {"P", "C"} : GameStart(mark, first)

\* "Play again?" answered N.
Quit ==
    /\ pc = "over"
    /\ pc' = "exit"
    /\ UNCHANGED <<b, player, computer, turn, winner, ret, forced, selfplay>>

Next ==
    \/ PlayerTurn
    \/ ComputerTurn
    \/ PlayAgain
    \/ Quit

Spec == Init /\ [][Next]_vars

(* ----------------------------------------------------------------------- *)
(* Single calls of the board model and of the search engine                *)
(* ----------------------------------------------------------------------- *)

\* The largest number of empty cells of a board on which minimax is called
\* directly.
MaxRootEmpty == 4

\* Every 9-cell board.
Boards == [Positions -> {Empty, "X", "O"}]

FnInit ==
    /\ b \in Boards
    /\ computer \in Marks
    /\ player = other_mark(computer)
    /\ turn = "C"
    /\ pc = "input"
    /\ winner = NoWinner
    /\ ret = NoCall
    /\ forced = FALSE
    /\ selfplay = FALSE

\* get_best_move(b, computer, player)
CallGetBestMove ==
    /\ pc = "input"
    /\ \E r \in {get_best_move(b, computer, player)} :
          /\ ret' = [op |-> "get_best_move", before |-> b, move |-> r.move,
                     raised |-> r.raised, searched |-> r.searched]
          /\ b' = r.board
    /\ pc' = "done"
    /\ UNCHANGED <<player, computer, turn, winner, forced, selfplay>>

\* minimax(b, 0, is_max, computer, player, -inf, +inf)
CallMinimax ==
    /\ pc = "input"
    /\ Cardinality(EmptyCells(b)) <= MaxRootEmpty
    /\ \E is_max \in BOOLEAN :
       \E r \in {minimax(b, 0, is_max, computer, player, -Inf, Inf)} :
          /\ ret' = [op |-> "minimax", before |-> b, is_max |-> is_max,
                     score |-> r.score, move |-> r.move]
          /\ b' = r.board
    /\ pc' = "done"
    /\ UNCHANGED <<player, computer, turn, winner, forced, selfplay>>

\* check_winner(b)
CallCheckWinner ==
    /\ pc = "input"
    /\ ret' = [op |-> "check_winner", before |-> b, value |-> check_winner(b)]
    /\ pc' = "done"
    /\ UNCHANGED <<b, player, computer, turn, winner, forced, selfplay>>

\* is_draw(b)
CallIsDraw ==
    /\ pc = "input"
    /\ ret' = [op |-> "is_draw", before |-> b, value |-> is_draw(b)]
    /\ pc' = "done"
    /\ UNCHANGED <<b, player, computer, turn, winner, forced, selfplay>>

FnNext ==
    \/ CallGetBestMove
    \/ CallMinimax
    \/ CallCheckWinner
    \/ CallIsDraw

FnSpec == FnInit /\ [][FnNext]_vars

(* ----------------------------------------------------------------------- *)
(* Properties                                                              *)
(* ----------------------------------------------------------------------- *)

\* A mark owns a line, or no cell is empty.
Terminal(bd) == (\E m \in Marks : OwnsLine(bd, m)) \/ EmptyCells(bd) = {}

\* The empty cells at which mark would complete a line.
WinningCells(bd, mark) ==
    {i \in EmptyCells(bd) : OwnsLine([bd EXCEPT ![i] = mark], mark)}

Lowest(S) == CHOOSE x \in S : \A y \in S : x <= y

\* A call of get_best_move has ended (by a return or by the assertion).
BestMoveDone == pc = "done" /\ ret.op = "get_best_move"

\* C1: playing get_best_move's moves from the empty board against any legal
\* moves of the opponent, no board has a line owned by the opponent's mark,
\* check_winner never returns the opponent's mark, and a finished game is a
\* computer win or a draw.
C1_Unbeatable ==
    /\ ~OwnsLine(b, player)
    /\ winner # player
    /\ pc = "over" =>
          \/ winner = computer /\ OwnsLine(b, computer)
          \/ winner = NoWinner /\ EmptyCells(b) = {} /\ ~OwnsLine(b, computer)

\* A game the opponent started and held to a draw.
C1_Witness ==
    /\ pc = "over"
    /\ ret.op = "get_best_move"
    /\ winner = NoWinner
    /\ Cardinality({i \in Positions : b[i] = player}) = 5

\* C2: once the computer is to move with a forced win, it has a forced win at
\* each of its later turns, and the game ends with the computer owning a line.
C2_ForcedWinIsWon ==
    forced =>
        /\ pc # "crashed"
        /\ (pc = "loop" /\ turn = "C") => ForcedWin(b, computer, player)
        /\ pc = "over" => winner = computer /\ OwnsLine(b, computer)

\* A game won after a forced win that the computer could not take at once.
C2_Witness ==
    /\ pc = "over"
    /\ forced
    /\ winner = computer
    /\ Cardinality({i \in Positions : b[i] = computer}) >= 4

\* C3: get_best_move leaves every cell of a non-terminal board as it found
\* it, whichever way it returns.
C3_NoMutationLeak ==
    (BestMoveDone /\ ~Terminal(ret.before)) => b = ret.before

\* A call that went through the search on a board with six empty cells.
C3_Witness ==
    /\ BestMoveDone
    /\ ~Terminal(ret.before)
    /\ ret.searched
    /\ Cardinality(EmptyCells(ret.before)) = 6
    /\ b = ret.before

\* C4: on a non-terminal board get_best_move does not trip its assertion and
\* returns the position of an empty cell; minimax returns no move only on a
\* terminal board.
C4_ValidMove ==
    /\ (BestMoveDone /\ ~Terminal(ret.before)) =>
          /\ ~ret.raised
          /\ ret.move \in Positions
          /\ ret.before[ret.move] = Empty
    /\ (BestMoveDone /\ ret.searched /\ ret.move = NoMove) => Terminal(ret.before)
    /\ (pc = "done" /\ ret.op = "minimax" /\ ret.move = NoMove) =>
          Terminal(ret.before)

\* A search on a board the computer has lost whatever it plays: every move
\* scores below 0, and a move is returned all the same.
C4_Witness ==
    /\ BestMoveDone
    /\ ~Terminal(ret.before)
    /\ ret.searched
    /\ ret.move \in EmptyCells(ret.before)
    /\ \A i \in EmptyCells(ret.before) :
          ForcedWin([ret.before EXCEPT ![i] = computer], player, computer)

\* The call get_best_move(board, "X", "O") on the empty board has ended.
EmptyBoardCall == BestMoveDone /\ ret.before = new_board /\ computer = "X"

\* C5, as claimed: on the empty board get_best_move(board, "X", "O") returns
\* position 4.
C5_Original == EmptyBoardCall => ret.move = 4

\* C5, amended: on the empty board get_best_move(board, "X", "O") goes
\* through the search and returns position 0.
C5_Amended == EmptyBoardCall => (~ret.raised /\ ret.searched /\ ret.move = 0)

C5_Witness == EmptyBoardCall /\ ~ret.raised

\* C6: a game from the empty board in which the human's every move is the
\* move get_best_move returns for the human's mark ends in a draw.
C6_SelfPlayDraw ==
    (pc = "over" /\ selfplay) =>
        /\ winner = NoWinner
        /\ EmptyCells(b) = {}
        /\ \A m \in Marks : ~OwnsLine(b, m)

\* A finished game of the engine against itself.
C6_Witness == pc = "over" /\ selfplay /\ ret.op = "get_best_move"

\* C7: when the computer can complete a line at once, get_best_move returns
\* the centre if the centre completes one, and the lowest-index completing
\* cell otherwise.
C7_OwnWinFirst ==
    (BestMoveDone /\ ~Terminal(ret.before)
        /\ WinningCells(ret.before, computer) # {}) =>
        /\ ~ret.raised
        /\ ret.move = (IF 4 \in WinningCells(ret.before, computer)
                       THEN 4
                       ELSE Lowest(WinningCells(ret.before, computer)))

\* Both sides can win at once, and the computer has a winning cell but not
\* the centre.
C7_Witness ==
    /\ BestMoveDone
    /\ ~Terminal(ret.before)
    /\ WinningCells(ret.before, computer) # {}
    /\ 4 \notin WinningCells(ret.before, computer)
    /\ WinningCells(ret.before, player) # {}
    /\ Lowest(WinningCells(ret.before, player))
           < Lowest(WinningCells(ret.before, computer))
    /\ ret.move = Lowest(WinningCells(ret.before, computer))

\* C8: when the computer cannot complete a line at once and the opponent
\* can, get_best_move returns the lowest-index cell at which the opponent
\* would, and minimax does not run.
C8_BlockPriority ==
    (BestMoveDone /\ ~Terminal(ret.before)
        /\ WinningCells(ret.before, computer) = {}
        /\ WinningCells(ret.before, player) # {}) =>
        /\ ~ret.raised
        /\ ~ret.searched
        /\ ret.move = Lowest(WinningCells(ret.before, player))

\* The opponent threatens at the centre and at a lower cell: the lower cell
\* is blocked.
C8_Witness ==
    /\ BestMoveDone
    /\ ~Terminal(ret.before)
    /\ WinningCells(ret.before, computer) = {}
    /\ 4 \in WinningCells(ret.before, player)
    /\ ret.move < 4
    /\ ret.move = Lowest(WinningCells(ret.before, player))

\* C9, as claimed: a call of get_best_move on a terminal board ends in the
\* assertion failure.
C9_Original == (BestMoveDone /\ Terminal(ret.before)) => ret.raised

\* C9, amended: on a terminal board the call ends in the assertion failure
\* exactly when no cell is empty; when a mark owns a line and a cell is
\* empty, the centre check or the scans return an empty cell without a
\* search.
C9_Amended ==
    (BestMoveDone /\ Terminal(ret.before)) =>
        /\ ret.raised <=> EmptyCells(ret.before) = {}
        /\ ret.raised => ret.move = NoMove
        /\ ~ret.raised => (~ret.searched /\ ret.move \in EmptyCells(ret.before))

\* The assertion fails on a full board on which the opponent owns a line.
C9_Witness ==
    /\ BestMoveDone
    /\ ret.raised
    /\ EmptyCells(ret.before) = {}
    /\ OwnsLine(ret.before, player)

\* At most one of the two marks owns a line.
AtMostOneOwner(bd) == ~(OwnsLine(bd, "X") /\ OwnsLine(bd, "O"))

\* C10: on a board on which at most one mark owns a line, check_winner
\* returns a mark exactly when that mark owns one of the 8 lines and returns
\* no winner exactly when no line is owned.
C10_WinnerDetection ==
    (pc = "done" /\ ret.op = "check_winner" /\ AtMostOneOwner(ret.before)) =>
        /\ \A m \in Marks : ret.value = m <=> OwnsLine(ret.before, m)
        /\ ret.value = NoWinner <=> \A m \in Marks : ~OwnsLine(ret.before, m)

\* A full board without three in a row.
C10_Witness ==
    /\ pc = "done"
    /\ ret.op = "check_winner"
    /\ EmptyCells(ret.before) = {}
    /\ ret.value = NoWinner
    /\ \A m \in Marks : ~OwnsLine(ret.before, m)

\* C11: is_draw returns true exactly when no mark owns a line (check_winner
\* returns no winner) and no cell is empty; it is false on every board with
\* an empty cell and on every board with an owned line.
C11_DrawDetection ==
    (pc = "done" /\ ret.op = "is_draw") =>
        /\ ret.value <=> /\ \A m \in Marks : ~OwnsLine(ret.before, m)
                         /\ EmptyCells(ret.before) = {}
        /\ EmptyCells(ret.before) # {} => ~ret.value
        /\ (\E m \in Marks : OwnsLine(ret.before, m)) => ~ret.value

\* A full board on which a mark owns a line: not a draw.
C11_Witness ==
    /\ pc = "done"
    /\ ret.op = "is_draw"
    /\ EmptyCells(ret.before) = {}
    /\ \E m \in Marks : OwnsLine(ret.before, m)
    /\ ~ret.value

\* The largest and the smallest of a set of integers.
Largest(S) == CHOOSE v \in S : \A w \in S : w <= v
Smallest(S) == CHOOSE v \in S : \A w \in S : v <= w

\* The depth-aware minimax value of bd, whose empty cells are E, without
\* cut-offs.
RECURSIVE PlainValue(_, _, _, _, _, _)
PlainValue(bd, E, depth, is_max, c, p) ==
    IF OwnsLine(bd, c) THEN 10 - depth
    ELSE IF OwnsLine(bd, p) THEN depth - 10
    ELSE IF E = {} THEN 0
    ELSE IF is_max
    THEN Largest({PlainValue([bd EXCEPT ![i] = c], E \ {i}, depth + 1, FALSE, c, p) : i \in E})
    ELSE Smallest({PlainValue([bd EXCEPT ![i] = p], E \ {i}, depth + 1, TRUE, c, p) : i \in E})

PlainMinimax(bd, depth, is_max, c, p) ==
    LET E == EmptyCells(bd)
        score == PlainValue(bd, E, depth, is_max, c, p)
    IN  IF Terminal(bd) THEN [score |-> score, move |-> NoMove]
        ELSE [score |-> score,
              move |-> Lowest({i \in E :
                  PlainValue([bd EXCEPT ![i] = IF is_max THEN c ELSE p], E \ {i},
                             depth + 1, ~is_max, c, p) = score})]

\* C12: at the root, with the computer to move on a non-terminal board and
\* the window (-inf, +inf), the pruned search returns the score and the move
\* of the search without cut-offs.
C12_PruningTransparent ==
    (pc = "done" /\ ret.op = "minimax" /\ ret.is_max /\ ~Terminal(ret.before)) =>
        \E plain \in {PlainMinimax(ret.before, 0, TRUE, computer, player)} :
            ret.score = plain.score /\ ret.move = plain.move

\* A root call in which a cut-off skips a cell: below some root move m the
\* opponent's first reply already scores no more than an earlier root move,
\* and the opponent has a second reply, which the pruned search never tries.
C12_Witness ==
    /\ pc = "done"
    /\ ret.op = "minimax"
    /\ ret.is_max
    /\ ~Terminal(ret.before)
    /\ \E m \in EmptyCells(ret.before), n \in EmptyCells(ret.before) :
          LET child == [ret.before EXCEPT ![m] = computer]
              reply == Lowest(EmptyCells(child))
          IN  /\ n < m
              /\ ~Terminal(child)
              /\ Cardinality(EmptyCells(child)) >= 2
              /\ PlainMinimax([child EXCEPT ![reply] = player], 2, TRUE,
                              computer, player).score
                    <= PlainMinimax([ret.before EXCEPT ![n] = computer], 1,
                                    FALSE, computer, player).score

Count(bd, mark) == Cardinality({i \in Positions : bd[i] = mark})

\* bd is a non-terminal board that alternating legal play from the empty
\* board reaches with c to move: p has made as many moves as c, or one more.
ReachableToMove(bd, c, p) ==
    /\ ~Terminal(bd)
    /\ Count(bd, p) - Count(bd, c) \in {0, 1}

\* The position the search alone returns at the root.
SearchAlone(bd, c, p) == minimax(bd, 0, TRUE, c, p, -Inf, Inf)

\* C13, as claimed: on a reachable board with the computer to move,
\* get_best_move returns the position the root search alone returns.
C13_Original ==
    (BestMoveDone /\ ReachableToMove(ret.before, computer, player)) =>
        ret.move = SearchAlone(ret.before, computer, player).move

\* The centre wins at once for c, and so does a lower cell.
CentreOverLowerWin(bd, c) ==
    4 \in WinningCells(bd, c) /\ Lowest(WinningCells(bd, c)) < 4

\* c cannot win at once, p can at two cells or more, and the lowest empty
\* cell is not one of them.
DoubleThreat(bd, c, p) ==
    /\ WinningCells(bd, c) = {}
    /\ Cardinality(WinningCells(bd, p)) >= 2
    /\ Lowest(EmptyCells(bd)) \notin WinningCells(bd, p)

\* C13, amended: get_best_move returns the position of the root search
\* except in two cases.  When the centre and a lower cell both win at once it
\* returns 4 and the search the lowest winning cell; when the computer cannot
\* win at once and the opponent threatens twice it returns the opponent's
\* lowest winning cell and the search the lowest empty cell.  In both cases
\* the two positions have the same score.
C13_Amended ==
    (BestMoveDone /\ ReachableToMove(ret.before, computer, player)) =>
        \E alone \in {SearchAlone(ret.before, computer, player)} :
            IF CentreOverLowerWin(ret.before, computer)
            THEN /\ ret.move = 4
                 /\ alone.move = Lowest(WinningCells(ret.before, computer))
                 /\ alone.score = 9
            ELSE IF DoubleThreat(ret.before, computer, player)
            THEN /\ ret.move = Lowest(WinningCells(ret.before, player))
                 /\ alone.move = Lowest(EmptyCells(ret.before))
                 /\ alone.score = -8
            ELSE ret.move = alone.move

\* A double threat, blocked at a cell the search alone would not pick.
C13_Witness ==
    /\ BestMoveDone
    /\ ReachableToMove(ret.before, computer, player)
    /\ DoubleThreat(ret.before, computer, player)
    /\ ret.move # Lowest(EmptyCells(ret.before))
    /\ ret.move \in WinningCells(ret.before, player)

(* ----------------------------------------------------------------------- *)
(* get_best_move on the boards of alternating play                         *)
(* ----------------------------------------------------------------------- *)

\* The boards that alternating legal play reaches with the computer to move.
PlayInit == FnInit /\ ReachableToMove(b, computer, player)

PlayNext == CallGetBestMove

PlaySpec == PlayInit /\ [][PlayNext]_vars

\* The value of cell i for c on bd: what unpruned minimax makes of the board
\* after c's mark is placed there, one ply deep, with p to move.
MoveValue(bd, i, c, p) ==
    PlainMinimax([bd EXCEPT ![i] = c], 1, FALSE, c, p).score

\* C14: on a reachable board with the computer to move, the move that
\* get_best_move returns has the largest depth-aware minimax value of all
\* legal moves (10 - d for a computer win after d plies, d - 10 for an
\* opponent win after d plies, 0 for a draw).
C14_BestValue ==
    (BestMoveDone /\ ReachableToMove(ret.before, computer, player)) =>
        /\ ret.move \in EmptyCells(ret.before)
        /\ \E best \in {MoveValue(ret.before, ret.move, computer, player)} :
              \A i \in EmptyCells(ret.before) :
                  MoveValue(ret.before, i, computer, player) <= best

\* A search whose choice matters: the returned move holds the draw while
\* another legal move loses the game.
C14_Witness ==
    /\ BestMoveDone
    /\ ReachableToMove(ret.before, computer, player)
    /\ ret.searched
    /\ ret.move \in EmptyCells(ret.before)
    /\ MoveValue(ret.before, ret.move, computer, player) = 0
    /\ \E i \in EmptyCells(ret.before) :
          MoveValue(ret.before, i, computer, player) < 0

(* ----------------------------------------------------------------------- *)
(* The turn loop: calls, boards between moves, termination                 *)
(* ----------------------------------------------------------------------- *)

\* C15: in every run of game_loop each call of get_best_move is made on a
\* board on which no mark owns a line and some cell is empty; the call
\* returns an empty cell, and the assertion never ends the program.
C15_CallerDiscipline ==
    /\ pc # "crashed"
    /\ ret.op = "get_best_move" =>
          /\ ~Terminal(ret.before)
          /\ ~ret.raised
          /\ ret.move \in EmptyCells(ret.before)

\* The call nearest to a terminal board: the computer is asked for a move on
\* a board with a single empty cell, and its move fills the board.
C15_Witness ==
    /\ pc = "over"
    /\ ret.op = "get_best_move"
    /\ Cardinality(EmptyCells(ret.before)) = 1
    /\ EmptyCells(b) = {}

\* A step of the loop that puts a mark on the board.
Placed == \E i \in Positions : b[i] = Empty /\ b'[i] # Empty

\* C16: on every board of game_loop between moves at most one mark owns a
\* line, a board on which the loop goes on has no owned line, and no mark is
\* placed on a board on which a mark owns a line.
C16_OneOwner ==
    /\ [](AtMostOneOwner(b) /\ (pc = "loop" => \A m \in Marks : ~OwnsLine(b, m)))
    /\ [][Placed => \A m \in Marks : ~OwnsLine(b, m)]_vars

\* A game that stops at a win while the other mark could still complete a
\* line of its own at an empty cell.
C16_Witness ==
    /\ pc = "over"
    /\ \E m \in Marks : OwnsLine(b, m) /\ WinningCells(b, other_mark(m)) # {}

\* The mark of the side whose turn it is.
mark_of(t) == IF t = "P" THEN player ELSE computer

\* What holds of every board of the loop: the marks' counts differ by at
\* most one, the loop goes on only on a board without a winner and with an
\* empty cell, and it has stopped only on a board with a winner or full.
LoopInvariant ==
    /\ pc \in {"loop", "over", "exit"}
    /\ Count(b, "X") - Count(b, "O") \in {-1, 0, 1}
    /\ Count(b, "X") + Count(b, "O") <= 9
    /\ pc = "loop" => ~Terminal(b)
    /\ pc \in {"over", "exit"} => Terminal(b)

\* What holds of every move: it happens in the loop, fills one empty cell
\* with the mark of the side to move and changes no other cell, and the
\* turn passes to the other side exactly when the loop goes on.
MoveStep ==
    Placed =>
        /\ pc = "loop"
        /\ \E i \in EmptyCells(b) : b' = [b EXCEPT ![i] = mark_of(turn)]
        /\ pc' = "loop" => turn' = other_turn(turn) /\ ~Terminal(b')
        /\ pc' # "loop" => pc' = "over" /\ Terminal(b')

\* One turn of the loop is carried out: the mark of the side to move goes to
\* an empty cell.  Of the steps of Next these are the steps of PlayerTurn and
\* of ComputerTurn that place a mark.
TurnTaken ==
    /\ pc = "loop"
    /\ \E i \in EmptyCells(b) : b' = [b EXCEPT ![i] = mark_of(turn)]

\* The game_loop in which no turn waits for ever: the human answers the
\* prompt of ask_move with a legal move, and the computer's turn, which is
\* straight-line code, runs to its end.
LiveSpec == Spec /\ WF_b(TurnTaken)

\* C17: turns alternate, each move fills exactly one empty cell and changes
\* no other, the counts of the two marks differ by at most one, the loop
\* stops exactly at the first board with a winner or without an empty cell
\* (so after at most 9 moves), and every game that the human keeps playing
\* comes to its end.
C17_Termination ==
    /\ []LoopInvariant
    /\ [][MoveStep]_vars
    /\ (pc = "loop") ~> (pc = "over")

\* A game of nine moves: the loop has stopped on a full board, the first
\* mover's mark being there five times and the other four times.
C17_Witness ==
    /\ pc = "over"
    /\ EmptyCells(b) = {}
    /\ winner = NoWinner
    /\ \E m \in Marks : Count(b, m) = 5 /\ Count(b, other_mark(m)) = 4

====
